---- MODULE Spec2Model ----
(***************************************************************************)
(* Model of the transaction engine of src/main.rs: parse_csv reads one     *)
(* record at a time and dispatches it to one of five handlers, which       *)
(* mutate the account store (ClientList) and the two ledgers of            *)
(* Transactions (valid, disputes).                                         *)
(*                                                                         *)
(* Amounts are f32 in the source.  The model keeps the f32 significand     *)
(* width: every amount in the model is an integer-valued f32, and every    *)
(* += / -= rounds the exact integer result to 24 significant bits, ties to *)
(* even, as IEEE-754 binary32 does.  Fractions, infinities and NaN are not *)
(* drawn as inputs.  Option<T> is the empty sequence (None) or a one       *)
(* element sequence (Some).  A HashMap is a function whose DOMAIN is its   *)
(* key set.                                                                *)
(***************************************************************************)
EXTENDS Integers, Sequences, FiniteSets, TLC

\* 2^24: above it an f32 no longer holds every integer
F32Exact == 16777216

\* ---- bounds of the model ------------------------------------------------
\* rows read from the file, and the largest transaction id a row names
MaxRecords == 4
MaxTx == 2

\* what the fields of a row are drawn from: client (u16), tx (u32) and
\* amount (f32; one value below and one at the edge of the exact integers)
ClientIds == {1, 2}
TxIds == 1..MaxTx
Amounts == {1, F32Exact}

\* ---- f32 arithmetic on integer values -----------------------------------
Abs(x) == IF x < 0 THEN 0 - x ELSE x

RECURSIVE Ulp(_)
Ulp(m) == IF m < F32Exact THEN 1 ELSE 2 * Ulp(m \div 2)

F32Round(x) ==
  LET m == Abs(x)
      u == Ulp(m)
      q == m \div u
      r == m % u
      rq == IF 2 * r < u THEN q
            ELSE IF 2 * r > u THEN q + 1
            ELSE IF q % 2 = 0 THEN q ELSE q + 1
  IN  IF x < 0 THEN 0 - (rq * u) ELSE rq * u

F32Add(a, b) == F32Round(a + b)
F32Sub(a, b) == F32Round(a - b)

\* ---- Option and HashMap -------------------------------------------------
None == <<>>
Some(x) == <<x>>
unwrap(o) == o[1]

\* slip: an existing key keeps its value (entry().or_insert)
insert_if_absent(m, k, v) ==
  [x \in (DOMAIN m) \cup {k} |-> IF x \in DOMAIN m THEN m[x] ELSE v]

insert(m, k, v) == [x \in (DOMAIN m) \cup {k} |-> IF x = k THEN v ELSE m[x]]
remove(m, k) == [x \in (DOMAIN m) \ {k} |-> m[x]]
EmptyMap == [x \in {} |-> 0]

\* ---- records ------------------------------------------------------------
TransactionType == {"deposit", "withdrawal", "dispute", "resolve", "chargeback"}

Transaction(ty, c, id, amt) == [tx_type |-> ty, client |-> c, tx |-> id, amount |-> amt]

\* rows the reader can hand out: a deposit or withdrawal row carries an
\* amount; the other three may or may not carry one
RecordsOf(ty) ==
  IF ty \in {"deposit", "withdrawal"}
  THEN {Transaction(ty, c, id, Some(a)) : c \in ClientIds, id \in TxIds, a \in Amounts}
  ELSE {Transaction(ty, c, id, o) : c \in ClientIds, id \in TxIds,
                                     o \in {None} \cup {Some(a) : a \in Amounts}}

NoRecord == [tx_type |-> "header", client |-> 0, tx |-> 0, amount |-> None]

\* clients, valid, disputes: the three maps; t: the row parse_csv last
\* deserialized; nread: how many rows have been read; applied: whether the
\* handler of t ran to its end (TRUE) or left through an early return or a
\* failed `if let` / `if` (FALSE)
VARIABLES clients, valid, disputes, t, nread, applied

vars == <<clients, valid, disputes, t, nread, applied>>

discard ==
  /\ applied' = FALSE
  /\ UNCHANGED <<clients, valid, disputes>>

Init ==
  /\ clients = EmptyMap
  /\ valid = EmptyMap
  /\ disputes = EmptyMap
  /\ t = NoRecord
  /\ nread = 0
  /\ applied = FALSE

\* ---- handle_deposit -----------------------------------------------------
open_new_acc(amt) == [available |-> amt, held |-> 0, total |-> amt, locked |-> FALSE]

\* slip: the deposit reaches available but not total
deposit_funds_available_only(acc, amt) ==
  [acc EXCEPT !.available = F32Add(@, amt)]

deposit_funds(acc, amt) ==
  [acc EXCEPT !.available = F32Add(@, amt), !.total = F32Add(@, amt)]

\* slip: the frozen check of handle_deposit is missing
deposit_locked_ignored(acc) == FALSE

deposit_locked(acc) == acc.locked

handle_deposit(rec) ==
  IF rec.client \in DOMAIN clients
  THEN IF deposit_locked(clients[rec.client])
       THEN discard
       ELSE /\ clients' = [clients EXCEPT ![rec.client] = deposit_funds(@, unwrap(rec.amount))]
            /\ valid' = insert(valid, rec.tx, rec)
            /\ UNCHANGED disputes
            /\ applied' = TRUE
  ELSE /\ clients' = insert(clients, rec.client, open_new_acc(unwrap(rec.amount)))
       /\ valid' = insert(valid, rec.tx, rec)
       /\ UNCHANGED disputes
       /\ applied' = TRUE

\* ---- handle_withdrawal --------------------------------------------------
\* slip: no funds check at all
overdraft_allowed(acc, amt) == TRUE

\* slip: > where the code has >=
strictly_more_funds(acc, amt) == acc.available > amt

sufficient_funds(acc, amt) == acc.available >= amt

\* slip: the withdrawal leaves total as it was
withdraw_funds_available_only(acc, amt) ==
  [acc EXCEPT !.available = F32Sub(@, amt)]

withdraw_funds(acc, amt) ==
  [acc EXCEPT !.available = F32Sub(@, amt), !.total = F32Sub(@, amt)]

\* slip: a withdrawal refused for lack of funds is recorded all the same
handle_withdrawal_recording(rec) ==
  IF rec.client \in DOMAIN clients
  THEN IF clients[rec.client].locked
       THEN discard
       ELSE IF sufficient_funds(clients[rec.client], unwrap(rec.amount))
            THEN /\ clients' = [clients EXCEPT ![rec.client] = withdraw_funds(@, unwrap(rec.amount))]
                 /\ valid' = insert(valid, rec.tx, rec)
                 /\ UNCHANGED disputes
                 /\ applied' = TRUE
            ELSE /\ valid' = insert(valid, rec.tx, rec)
                 /\ UNCHANGED <<clients, disputes>>
                 /\ applied' = FALSE
  ELSE discard

handle_withdrawal(rec) ==
  IF rec.client \in DOMAIN clients
  THEN IF clients[rec.client].locked
       THEN discard
       ELSE IF sufficient_funds(clients[rec.client], unwrap(rec.amount))
            THEN /\ clients' = [clients EXCEPT ![rec.client] = withdraw_funds(@, unwrap(rec.amount))]
                 /\ valid' = insert(valid, rec.tx, rec)
                 /\ UNCHANGED disputes
                 /\ applied' = TRUE
            ELSE discard
  ELSE discard

\* ---- handle_dispute -----------------------------------------------------
\* slip: a dispute of an unknown id that carries an amount is taken at its word
past_tx_or_self(rec) ==
  IF rec.tx \in DOMAIN valid THEN Some(valid[rec.tx])
  ELSE IF rec.amount # None THEN Some(rec) ELSE None

\* a stricter handler: only the client of the applied record may dispute it
past_tx_same_client(rec) ==
  IF rec.tx \in DOMAIN valid /\ valid[rec.tx].client = rec.client
  THEN Some(valid[rec.tx]) ELSE None

\* a stricter handler: an id with an open dispute cannot be disputed again
past_tx_not_open(rec) ==
  IF rec.tx \in DOMAIN valid /\ rec.tx \notin DOMAIN disputes
  THEN Some(valid[rec.tx]) ELSE None

\* transactions.valid.get_mut(&t.tx)
past_tx(rec) == IF rec.tx \in DOMAIN valid THEN Some(valid[rec.tx]) ELSE None

\* slip: the dispute freezes the account as a chargeback does
hold_funds_and_lock(acc, amt) ==
  [acc EXCEPT !.available = F32Sub(@, amt), !.held = F32Add(@, amt), !.locked = TRUE]

hold_funds(acc, amt) ==
  [acc EXCEPT !.available = F32Sub(@, amt), !.held = F32Add(@, amt)]

\* slip: the amount on the dispute row wins over the applied record's
claimed_amount(rec) ==
  IF rec.amount # None THEN unwrap(rec.amount) ELSE unwrap(unwrap(past_tx(rec)).amount)

\* past_tx.amount.unwrap()
disputed_amount(rec) == unwrap(unwrap(past_tx(rec)).amount)

DisputeAmt(amt) == amt

\* slip: the funds are held on the account of the client of the applied
\* record, not on the account of the client of the dispute row
handle_dispute_debits_owner(rec) ==
  IF past_tx(rec) # None
  THEN IF rec.client \in DOMAIN clients
       THEN IF clients[rec.client].locked
            THEN discard
            ELSE /\ clients' = [clients EXCEPT ![unwrap(past_tx(rec)).client] =
                                  hold_funds(@, disputed_amount(rec))]
                 /\ disputes' = insert(disputes, rec.tx, DisputeAmt(disputed_amount(rec)))
                 /\ UNCHANGED valid
                 /\ applied' = TRUE
       ELSE discard
  ELSE discard

handle_dispute(rec) ==
  IF past_tx(rec) # None
  THEN IF rec.client \in DOMAIN clients
       THEN IF clients[rec.client].locked
            THEN discard
            ELSE /\ clients' = [clients EXCEPT ![rec.client] =
                                  hold_funds(@, disputed_amount(rec))]
                 /\ disputes' = insert(disputes, rec.tx, DisputeAmt(disputed_amount(rec)))
                 /\ UNCHANGED valid
                 /\ applied' = TRUE
       ELSE discard
  ELSE discard

\* ---- handle_resolve -----------------------------------------------------
\* slip: the amount to reverse is looked up again in the applied ledger
past_dispute_from_valid(rec) ==
  IF rec.tx \in DOMAIN disputes THEN Some(unwrap(valid[rec.tx].amount)) ELSE None

\* a stricter handler: only the client of the applied record may close the
\* dispute
past_dispute_same_client(rec) ==
  IF rec.tx \in DOMAIN disputes /\ valid[rec.tx].client = rec.client
  THEN Some(disputes[rec.tx]) ELSE None

\* transactions.disputes.get_mut(&t.tx)
past_dispute(rec) == IF rec.tx \in DOMAIN disputes THEN Some(disputes[rec.tx]) ELSE None

\* slip: the resolve also credits total
release_funds_and_total(acc, amt) ==
  [acc EXCEPT !.available = F32Add(@, amt), !.held = F32Sub(@, amt), !.total = F32Add(@, amt)]

release_funds(acc, amt) ==
  [acc EXCEPT !.available = F32Add(@, amt), !.held = F32Sub(@, amt)]

handle_resolve(rec) ==
  IF past_dispute(rec) # None
  THEN IF rec.client \in DOMAIN clients
       THEN IF clients[rec.client].locked
            THEN discard
            ELSE /\ clients' = [clients EXCEPT ![rec.client] =
                                  release_funds(@, unwrap(past_dispute(rec)))]
                 /\ disputes' = remove(disputes, rec.tx)
                 /\ UNCHANGED valid
                 /\ applied' = TRUE
       ELSE discard
  ELSE discard

\* ---- handle_chargeback --------------------------------------------------
\* slip: the chargeback debits available where the code debits total
charge_back_available(acc, amt) ==
  [acc EXCEPT !.held = F32Sub(@, amt), !.available = F32Sub(@, amt), !.locked = TRUE]

charge_back(acc, amt) ==
  [acc EXCEPT !.held = F32Sub(@, amt), !.total = F32Sub(@, amt), !.locked = TRUE]

handle_chargeback(rec) ==
  IF past_dispute(rec) # None
  THEN IF rec.client \in DOMAIN clients
       THEN IF clients[rec.client].locked
            THEN discard
            ELSE /\ clients' = [clients EXCEPT ![rec.client] =
                                  charge_back(@, unwrap(past_dispute(rec)))]
                 /\ disputes' = remove(disputes, rec.tx)
                 /\ UNCHANGED valid
                 /\ applied' = TRUE
       ELSE discard
  ELSE discard

\* ---- parse_csv ----------------------------------------------------------
read_record(rec) ==
  /\ nread < MaxRecords
  /\ nread' = nread + 1
  /\ t' = rec

Deposit == \E rec \in RecordsOf("deposit") : read_record(rec) /\ handle_deposit(rec)
Withdrawal == \E rec \in RecordsOf("withdrawal") : read_record(rec) /\ handle_withdrawal(rec)
Dispute == \E rec \in RecordsOf("dispute") : read_record(rec) /\ handle_dispute(rec)
Resolve == \E rec \in RecordsOf("resolve") : read_record(rec) /\ handle_resolve(rec)
Chargeback == \E rec \in RecordsOf("chargeback") : read_record(rec) /\ handle_chargeback(rec)

Next == Deposit \/ Withdrawal \/ Dispute \/ Resolve \/ Chargeback

Spec == Init /\ [][Next]_vars

\* ---- parse_csv on the rows of one file ---------------------------------
\* the match on t.tx_type
dispatch(rec) ==
  CASE rec.tx_type = "deposit" -> handle_deposit(rec)
    [] rec.tx_type = "withdrawal" -> handle_withdrawal(rec)
    [] rec.tx_type = "dispute" -> handle_dispute(rec)
    [] rec.tx_type = "resolve" -> handle_resolve(rec)
    [] rec.tx_type = "chargeback" -> handle_chargeback(rec)

\* the rows of the file: a deposit, two withdrawals (the second larger than
\* the balance), a dispute and a chargeback of the deposit, a late deposit
Scenario ==
  << Transaction("deposit", 1, 1, Some(5)),
     Transaction("withdrawal", 1, 2, Some(3)),
     Transaction("withdrawal", 1, 3, Some(10)),
     Transaction("dispute", 1, 1, None),
     Transaction("chargeback", 1, 1, None),
     Transaction("deposit", 1, 4, Some(1)) >>

\* rows read from the file
MaxScenario == 6

\* the reader hands out the rows of the file in any order, repeats allowed
ScenarioStep ==
  \E i \in 1..Len(Scenario) :
    /\ nread < MaxScenario
    /\ nread' = nread + 1
    /\ t' = Scenario[i]
    /\ dispatch(Scenario[i])

SpecScenario == Init /\ [][ScenarioStep]_vars

\* ---- parse_csv on well-formed files --------------------------------------
\* rows read from the file
MaxWellFormed == 5

\* Files in which every deposit and withdrawal has a fresh id (the number
\* of its row), amounts are positive, a dispute, resolve or chargeback of
\* an applied id carries the client of the applied record, and no dispute
\* names an id whose dispute is open.
WellFormed(rec) ==
  /\ rec.client \in ClientIds
  /\ IF rec.tx_type \in {"deposit", "withdrawal"}
     THEN /\ rec.tx = nread + 1
          /\ rec.amount \in {Some(a) : a \in Amounts}
     ELSE /\ rec.tx \in 1..MaxWellFormed
          /\ rec.amount = None
          /\ rec.tx \in DOMAIN valid => rec.client = valid[rec.tx].client
          /\ rec.tx_type = "dispute" => rec.tx \notin DOMAIN disputes

WellFormedRows(ty) ==
  {rec \in {Transaction(ty, c, id, o) : c \in ClientIds, id \in 1..MaxWellFormed,
                                        o \in {None} \cup {Some(a) : a \in Amounts}} :
     WellFormed(rec)}

read_well_formed(rec) ==
  /\ nread < MaxWellFormed
  /\ nread' = nread + 1
  /\ t' = rec

WFDeposit == \E rec \in WellFormedRows("deposit") : read_well_formed(rec) /\ handle_deposit(rec)
WFWithdrawal == \E rec \in WellFormedRows("withdrawal") : read_well_formed(rec) /\ handle_withdrawal(rec)
WFDispute == \E rec \in WellFormedRows("dispute") : read_well_formed(rec) /\ handle_dispute(rec)
WFResolve == \E rec \in WellFormedRows("resolve") : read_well_formed(rec) /\ handle_resolve(rec)
WFChargeback == \E rec \in WellFormedRows("chargeback") : read_well_formed(rec) /\ handle_chargeback(rec)

WFNext == WFDeposit \/ WFWithdrawal \/ WFDispute \/ WFResolve \/ WFChargeback

SpecWellFormed == Init /\ [][WFNext]_vars

\* ---- shape of the state -------------------------------------------------
TypeOK ==
  /\ DOMAIN clients \subseteq ClientIds
  /\ DOMAIN valid \subseteq TxIds
  /\ DOMAIN disputes \subseteq TxIds
  /\ \A c \in DOMAIN clients : clients[c].locked \in BOOLEAN
  /\ nread \in 0..MaxRecords
  /\ applied \in BOOLEAN

\* ---- properties ---------------------------------------------------------
\* the account of the row just read, and its amount (rows of deposits and
\* withdrawals always carry one)
HasAccount(c) == c \in DOMAIN clients
Unlocked(c) == HasAccount(c) /\ ~clients[c].locked

\* C1: in every reachable state every account satisfies
\* total = available + held.  The sum is read either exactly or as the f32
\* sum; the statement fails only where both readings fail.
C1_TotalIsAvailablePlusHeld ==
  \A c \in DOMAIN clients :
    \/ clients[c].total = clients[c].available + clients[c].held
    \/ clients[c].total = F32Add(clients[c].available, clients[c].held)

\* C2: once an account is locked, a row of any type for that client leaves
\* its available, held and total as they were.
C2_LockedAccountFrozen ==
  [][\A c \in DOMAIN clients :
       (clients[c].locked /\ t'.client = c) =>
         /\ clients'[c].available = clients[c].available
         /\ clients'[c].held = clients[c].held
         /\ clients'[c].total = clients[c].total]_vars

\* a deposit for a locked client has just been thrown away
C2_Witness ==
  /\ t.tx_type = "deposit"
  /\ HasAccount(t.client)
  /\ clients[t.client].locked
  /\ ~applied

\* C3: every key of the open-dispute ledger is a key of the applied ledger.
C3_DisputesAreApplied == DOMAIN disputes \subseteq DOMAIN valid

\* a dispute has just opened an entry
C3_Witness ==
  /\ t.tx_type = "dispute"
  /\ applied
  /\ t.tx \in DOMAIN disputes

\* a chargeback that passes all three checks of handle_chargeback
AcceptedChargeback(rec) ==
  /\ rec.tx_type = "chargeback"
  /\ rec.tx \in DOMAIN disputes
  /\ Unlocked(rec.client)

\* C4: locked never goes back to false; it goes to true only in an accepted
\* chargeback of that client; an account is created unlocked.
C4_LockedOnlyByChargeback ==
  [][/\ \A c \in DOMAIN clients :
          /\ c \in DOMAIN clients'
          /\ clients[c].locked => clients'[c].locked
          /\ (~clients[c].locked /\ clients'[c].locked) =>
               (AcceptedChargeback(t') /\ t'.client = c)
          /\ t'.tx_type \in {"deposit", "withdrawal", "dispute", "resolve"} =>
               clients'[c].locked = clients[c].locked
     /\ \A c \in (DOMAIN clients') \ (DOMAIN clients) : ~clients'[c].locked]_vars

\* a chargeback has just locked the account of its client
C4_Witness ==
  /\ t.tx_type = "chargeback"
  /\ applied
  /\ clients[t.client].locked

\* the failing cases of C5, for a row rec, in the state before it is handled
Fails(rec) ==
  \/ /\ rec.tx_type = "deposit"
     /\ HasAccount(rec.client)
     /\ clients[rec.client].locked
  \/ /\ rec.tx_type = "withdrawal"
     /\ \/ ~HasAccount(rec.client)
        \/ clients[rec.client].locked
        \/ clients[rec.client].available < unwrap(rec.amount)
  \/ /\ rec.tx_type = "dispute"
     /\ \/ rec.tx \notin DOMAIN valid
        \/ ~HasAccount(rec.client)
        \/ clients[rec.client].locked
  \/ /\ rec.tx_type \in {"resolve", "chargeback"}
     /\ \/ rec.tx \notin DOMAIN disputes
        \/ ~HasAccount(rec.client)
        \/ clients[rec.client].locked

\* C5: a row that fails a precondition leaves the account store and both
\* ledgers identical.
C5_DiscardHasNoEffect ==
  [][Fails(t') => (clients' = clients /\ valid' = valid /\ disputes' = disputes)]_vars

\* a withdrawal larger than the available funds of an unlocked account has
\* just been thrown away
C5_Witness ==
  /\ t.tx_type = "withdrawal"
  /\ ~applied
  /\ Unlocked(t.client)
  /\ clients[t.client].available < unwrap(t.amount)

\* C6: a deposit creates the account with available = total = amount,
\* held = 0, unlocked; or adds the amount (an f32 +=) to available and total
\* of an unlocked account; in both cases the row is stored under its id.  On a
\* locked account neither the store nor the applied ledger changes.
C6_Deposit ==
  [][t'.tx_type = "deposit" =>
       LET c == t'.client
           a == unwrap(t'.amount)
       IN  IF ~HasAccount(c)
           THEN /\ clients' = insert(clients, c,
                      [available |-> a, held |-> 0, total |-> a, locked |-> FALSE])
                /\ valid' = insert(valid, t'.tx, t')
           ELSE IF ~clients[c].locked
           THEN /\ clients' = [clients EXCEPT ![c] =
                      [@ EXCEPT !.available = F32Add(@, a), !.total = F32Add(@, a)]]
                /\ valid' = insert(valid, t'.tx, t')
           ELSE clients' = clients /\ valid' = valid]_vars

\* a deposit has just been added to an account that already held funds
C6_Witness ==
  /\ t.tx_type = "deposit"
  /\ applied
  /\ clients[t.client].total > unwrap(t.amount)
  /\ valid[t.tx] = t

\* C7: a withdrawal is accepted exactly when the account exists, is unlocked
\* and has available >= amount; then available and total go down by the
\* amount (an f32 -=) and the row is stored under its id; otherwise the store
\* and the applied ledger are unchanged.
C7_Withdrawal ==
  [][t'.tx_type = "withdrawal" =>
       LET c == t'.client
           a == unwrap(t'.amount)
       IN  IF Unlocked(c) /\ clients[c].available >= a
           THEN /\ clients' = [clients EXCEPT ![c] =
                      [@ EXCEPT !.available = F32Sub(@, a), !.total = F32Sub(@, a)]]
                /\ valid' = insert(valid, t'.tx, t')
           ELSE clients' = clients /\ valid' = valid]_vars

\* a withdrawal of the whole available balance has just been applied
C7_Witness ==
  /\ t.tx_type = "withdrawal"
  /\ applied
  /\ clients[t.client].available = 0
  /\ valid[t.tx] = t

\* C8: an accepted dispute moves the amount of the applied record, not the
\* amount on the dispute row, from available to held; total and locked stay;
\* the open-dispute ledger then maps the id to that amount.
C8_Dispute ==
  [][(/\ t'.tx_type = "dispute"
      /\ t'.tx \in DOMAIN valid
      /\ Unlocked(t'.client)) =>
       LET c == t'.client
           a == unwrap(valid[t'.tx].amount)
       IN  /\ clients' = [clients EXCEPT ![c] =
                 [@ EXCEPT !.available = F32Sub(@, a), !.held = F32Add(@, a)]]
           /\ t'.tx \in DOMAIN disputes'
           /\ disputes'[t'.tx] = a]_vars

\* a dispute row carrying an amount other than the applied one has just been
\* accepted
C8_Witness ==
  /\ t.tx_type = "dispute"
  /\ applied
  /\ t.amount # None
  /\ unwrap(t.amount) # disputes[t.tx]

\* C9: an accepted resolve moves the open-dispute amount from held back to
\* available, leaves total and locked, removes the open-dispute entry and
\* leaves the applied ledger.
C9_Resolve ==
  [][(/\ t'.tx_type = "resolve"
      /\ t'.tx \in DOMAIN disputes
      /\ Unlocked(t'.client)) =>
       LET c == t'.client
           a == disputes[t'.tx]
       IN  /\ clients' = [clients EXCEPT ![c] =
                 [@ EXCEPT !.available = F32Add(@, a), !.held = F32Sub(@, a)]]
           /\ t'.tx \notin DOMAIN disputes'
           /\ valid' = valid]_vars

\* a resolve has just closed a dispute
C9_Witness ==
  /\ t.tx_type = "resolve"
  /\ applied
  /\ t.tx \notin DOMAIN disputes

\* C10: an accepted chargeback takes the open-dispute amount off held and
\* total, leaves available, locks the account, removes the open-dispute entry
\* and leaves the applied ledger.
C10_Chargeback ==
  [][AcceptedChargeback(t') =>
       LET c == t'.client
           a == disputes[t'.tx]
       IN  /\ clients' = [clients EXCEPT ![c] =
                 [@ EXCEPT !.held = F32Sub(@, a), !.total = F32Sub(@, a), !.locked = TRUE]]
           /\ t'.tx \notin DOMAIN disputes'
           /\ valid' = valid]_vars

\* a chargeback has just closed a dispute
C10_Witness ==
  /\ t.tx_type = "chargeback"
  /\ applied
  /\ t.tx \notin DOMAIN disputes
  /\ clients[t.client].locked
  /\ clients[t.client].held = 0

\* C11: an entry of the applied ledger is permanent and immutable: across
\* every step each id stays a key and keeps the record stored under it.
C11_AppliedEntryImmutable ==
  [][\A id \in DOMAIN valid :
       /\ id \in DOMAIN valid'
       /\ valid'[id] = valid[id]]_vars

\* a deposit or a withdrawal that passes the checks of its handler
AcceptedDeposit(rec) ==
  /\ rec.tx_type = "deposit"
  /\ (~HasAccount(rec.client) \/ ~clients[rec.client].locked)

AcceptedWithdrawal(rec) ==
  /\ rec.tx_type = "withdrawal"
  /\ Unlocked(rec.client)
  /\ clients[rec.client].available >= unwrap(rec.amount)

\* C12: the applied ledger holds only deposit and withdrawal rows, each
\* stored under its own id, and it changes only by storing a row that was
\* accepted in that step.
C12_AppliedHoldsAcceptedOnly ==
  [][/\ \A id \in DOMAIN valid' :
          /\ valid'[id].tx_type \in {"deposit", "withdrawal"}
          /\ valid'[id].tx = id
     /\ valid' # valid =>
          /\ AcceptedDeposit(t') \/ AcceptedWithdrawal(t')
          /\ valid' = insert(valid, t'.tx, t')
     /\ ~(AcceptedDeposit(t') \/ AcceptedWithdrawal(t')) => valid' = valid]_vars

\* a withdrawal has just been refused and its id is not in the applied
\* ledger, which holds an earlier accepted row
C12_Witness ==
  /\ t.tx_type = "withdrawal"
  /\ ~applied
  /\ t.tx \notin DOMAIN valid
  /\ DOMAIN valid # {}

Acc(av, h, tot, l) == [available |-> av, held |-> h, total |-> tot, locked |-> l]

\* the three maps after the first k rows of Scenario, as C13 gives them
Expected(k) ==
  CASE k = 0 -> clients = EmptyMap /\ valid = EmptyMap /\ disputes = EmptyMap
    [] k = 1 -> /\ clients = (1 :> Acc(5, 0, 5, FALSE))
                /\ valid = (1 :> Scenario[1])
                /\ disputes = EmptyMap
    [] k \in {2, 3} -> /\ clients = (1 :> Acc(2, 0, 2, FALSE))
                       /\ valid = (1 :> Scenario[1] @@ 2 :> Scenario[2])
                       /\ disputes = EmptyMap
    [] k = 4 -> /\ clients = (1 :> Acc(0 - 3, 5, 2, FALSE))
                /\ valid = (1 :> Scenario[1] @@ 2 :> Scenario[2])
                /\ disputes = (1 :> 5)
    [] k \in {5, 6} -> /\ clients = (1 :> Acc(0 - 3, 0, 0 - 3, TRUE))
                       /\ valid = (1 :> Scenario[1] @@ 2 :> Scenario[2])
                       /\ 1 \notin DOMAIN disputes
                       /\ 3 \notin DOMAIN valid

\* C13: from empty maps, the rows of Scenario taken in order lead through
\* the states the claim lists: the k+1-th row takes the state after k rows to
\* the state after k+1 rows, and the sixth row changes nothing.
C13_Scenario ==
  [][\A k \in 0..5 :
       (Expected(k) /\ t' = Scenario[k + 1]) => Expected(k + 1)']_vars

\* all six rows have been read and the late deposit was thrown away
C13_Witness ==
  /\ nread = 6
  /\ t = Scenario[6]
  /\ ~applied
  /\ Expected(6)

\* a dispute, resolve or chargeback that passes the checks of its handler
AcceptedDispute(rec) ==
  /\ rec.tx_type = "dispute"
  /\ rec.tx \in DOMAIN valid
  /\ Unlocked(rec.client)

AcceptedResolve(rec) ==
  /\ rec.tx_type = "resolve"
  /\ rec.tx \in DOMAIN disputes
  /\ Unlocked(rec.client)

\* C14: the amount an accepted resolve or chargeback of id reverses is the
\* amount the latest accepted dispute of id moved.  Step by step: an accepted
\* dispute of id moves the amount it stores under id; an entry appears only
\* that way; no other row, a deposit or withdrawal reusing id included,
\* changes a stored amount; an accepted resolve or chargeback of id reverses
\* the stored amount.
C14_ReversesDisputedAmount ==
  [][\A id \in TxIds :
       LET c == t'.client
           onId == t'.tx = id
       IN  /\ (AcceptedDispute(t') /\ onId) =>
                /\ id \in DOMAIN disputes'
                /\ clients'[c].held = F32Add(clients[c].held, disputes'[id])
                /\ clients'[c].available = F32Sub(clients[c].available, disputes'[id])
           /\ (id \in DOMAIN disputes' /\ ~(AcceptedDispute(t') /\ onId)) =>
                /\ id \in DOMAIN disputes
                /\ disputes'[id] = disputes[id]
           /\ (AcceptedResolve(t') /\ onId) =>
                /\ clients'[c].held = F32Sub(clients[c].held, disputes[id])
                /\ clients'[c].available = F32Add(clients[c].available, disputes[id])
           /\ (AcceptedChargeback(t') /\ onId) =>
                /\ clients'[c].held = F32Sub(clients[c].held, disputes[id])
                /\ clients'[c].total = F32Sub(clients[c].total, disputes[id])]_vars

\* a deposit of 16777216 was disputed, a deposit of 1 then took over its id,
\* and the chargeback has just taken 16777216, not 1, off held and total
C14_Witness ==
  /\ t.tx_type = "chargeback"
  /\ applied
  /\ nread = 4
  /\ clients[t.client] = Acc(1, 0, 0, TRUE)
  /\ valid[t.tx].amount = Some(1)

\* C15: a dispute by a client other than the client of the applied record
\* is accepted when the disputing client has an unlocked account: the applied
\* amount moves from that client's available to its held, an entry is opened
\* for the id, and the account of the record's own client is unchanged.
C15_DisputeByOtherClient ==
  [][(AcceptedDispute(t') /\ valid[t'.tx].client # t'.client) =>
       LET c2 == t'.client
           c1 == valid[t'.tx].client
           a == unwrap(valid[t'.tx].amount)
       IN  /\ clients'[c2] = [clients[c2] EXCEPT !.available = F32Sub(@, a),
                                                 !.held = F32Add(@, a)]
           /\ t'.tx \in DOMAIN disputes'
           /\ disputes'[t'.tx] = a
           /\ HasAccount(c1) => (c1 \in DOMAIN clients' /\ clients'[c1] = clients[c1])]_vars

\* a client has just disputed, on its own account, a row applied for the
\* other client
C15_Witness ==
  /\ t.tx_type = "dispute"
  /\ applied
  /\ valid[t.tx].client # t.client
  /\ disputes[t.tx] = unwrap(valid[t.tx].amount)

\* client c deposited a under id and has disputed it k times in a row
Redisputed(c, id, a, k) ==
  /\ HasAccount(c)
  /\ clients[c] = Acc(a - k * a, k * a, a, FALSE)
  /\ id \in DOMAIN valid
  /\ valid[id] = Transaction("deposit", c, id, Some(a))
  /\ IF k = 0 THEN id \notin DOMAIN disputes
     ELSE id \in DOMAIN disputes /\ disputes[id] = a

\* C16: a dispute of an id that already has an open entry is accepted: it
\* moves the applied amount again and overwrites the entry; k disputes in a
\* row of a deposit of a leave held = k * a and one entry of a.
C16_RedisputeCountsTwice ==
  [][/\ (AcceptedDispute(t') /\ t'.tx \in DOMAIN disputes) =>
          LET c == t'.client
              a == unwrap(valid[t'.tx].amount)
          IN  /\ clients'[c] = [clients[c] EXCEPT !.available = F32Sub(@, a),
                                                  !.held = F32Add(@, a)]
              /\ disputes' = insert(disputes, t'.tx, a)
              /\ DOMAIN disputes' = DOMAIN disputes
     /\ t'.tx_type = "dispute" =>
          \A c \in ClientIds, id \in TxIds :
            (t'.client = c /\ t'.tx = id) =>
              \A a \in Amounts, k \in 0..MaxRecords :
                Redisputed(c, id, a, k) => Redisputed(c, id, a, k + 1)']_vars

\* a deposit of 1 has just been disputed for the second time
C16_Witness ==
  /\ t.tx_type = "dispute"
  /\ applied
  /\ nread = 3
  /\ Redisputed(t.client, t.tx, 1, 2)

\* C17: an accepted deposit or withdrawal whose id is already in the applied
\* ledger is applied and replaces the stored record; a stored record changes
\* in no other way; a dispute takes the amount of the record stored at that
\* time, that is of the latest accepted row with that id.
C17_ReusedIdReplacesRecord ==
  [][/\ ((AcceptedDeposit(t') \/ AcceptedWithdrawal(t')) /\ t'.tx \in DOMAIN valid) =>
          LET c == t'.client
              a == unwrap(t'.amount)
          IN  /\ valid'[t'.tx] = t'
              /\ DOMAIN valid' = DOMAIN valid
              /\ clients'[c] =
                   IF ~HasAccount(c) THEN Acc(a, 0, a, FALSE)
                   ELSE IF t'.tx_type = "deposit"
                   THEN [clients[c] EXCEPT !.available = F32Add(@, a), !.total = F32Add(@, a)]
                   ELSE [clients[c] EXCEPT !.available = F32Sub(@, a), !.total = F32Sub(@, a)]
     /\ \A id \in DOMAIN valid :
          ~((AcceptedDeposit(t') \/ AcceptedWithdrawal(t')) /\ t'.tx = id) =>
             (id \in DOMAIN valid' /\ valid'[id] = valid[id])
     /\ AcceptedDispute(t') =>
          /\ disputes'[t'.tx] = unwrap(valid[t'.tx].amount)
          /\ clients'[t'.client].held =
               F32Add(clients[t'.client].held, unwrap(valid[t'.tx].amount))]_vars

\* a deposit of 16777216 and then a deposit of 1 were applied under the one
\* id of the ledger, and the dispute of that id has just held 1
C17_Witness ==
  /\ t.tx_type = "dispute"
  /\ applied
  /\ nread = 3
  /\ DOMAIN valid = {t.tx}
  /\ clients[t.client] = Acc(F32Exact - 1, 1, F32Exact, FALSE)
  /\ disputes[t.tx] = 1

\* C18: a row changes no account but that of its own client, and no account
\* leaves the store.
C18_OnlyOwnAccountChanges ==
  [][/\ \A c \in DOMAIN clients :
          /\ c \in DOMAIN clients'
          /\ c # t'.client => clients'[c] = clients[c]
     /\ DOMAIN clients' \subseteq (DOMAIN clients) \cup {t'.client}]_vars

\* a chargeback of a row applied for the other client has just been applied
\* while the other client has an account
C18_Witness ==
  /\ t.tx_type = "chargeback"
  /\ applied
  /\ valid[t.tx].client # t.client
  /\ HasAccount(valid[t.tx].client)
  /\ ~clients[valid[t.tx].client].locked

\* the open-dispute amounts of the applied rows of client c, added exactly
RECURSIVE SumOpen(_, _)
SumOpen(c, ids) ==
  IF ids = {} THEN 0
  ELSE LET id == CHOOSE x \in ids : TRUE
       IN  (IF valid[id].client = c THEN disputes[id] ELSE 0) + SumOpen(c, ids \ {id})

OpenDisputesOf(c) == SumOpen(c, DOMAIN disputes)

\* C19: on well-formed files the held of every account is the sum of the
\* open-dispute amounts of that client's rows, hence never negative.  The sum
\* is read either exactly or rounded to f32; the statement fails only where
\* both readings fail.
C19_HeldIsOpenDisputes ==
  \A c \in DOMAIN clients :
    /\ \/ clients[c].held = OpenDisputesOf(c)
       \/ clients[c].held = F32Round(OpenDisputesOf(c))
    /\ clients[c].held >= 0

\* C20: a resolve or chargeback by a client with an unlocked account is
\* accepted whoever opened the dispute: the entry's amount comes off the held
\* of the row's own client (and, for a chargeback, off its total, and the
\* account is locked), the entry is removed, and every other account, the
\* one the dispute debited included, is unchanged.
C20_CloseByOtherClient ==
  [][(AcceptedResolve(t') \/ AcceptedChargeback(t')) =>
       LET c2 == t'.client
           a == disputes[t'.tx]
       IN  /\ clients'[c2] =
                IF t'.tx_type = "resolve"
                THEN [clients[c2] EXCEPT !.available = F32Add(@, a), !.held = F32Sub(@, a)]
                ELSE [clients[c2] EXCEPT !.held = F32Sub(@, a), !.total = F32Sub(@, a),
                                         !.locked = TRUE]
           /\ t'.tx \notin DOMAIN disputes'
           /\ \A c1 \in (DOMAIN clients) \ {c2} :
                c1 \in DOMAIN clients' /\ clients'[c1] = clients[c1]]_vars

\* one client deposited and disputed, and the other client has just resolved
\* that dispute: its held went below zero while the first client's funds are
\* still held
C20_Witness ==
  /\ t.tx_type = "resolve"
  /\ applied
  /\ nread = 4
  /\ clients[t.client].held < 0
  /\ \E c1 \in (DOMAIN clients) \ {t.client} :
       /\ clients[c1].held > 0
       /\ ~clients[c1].locked
  /\ disputes = EmptyMap
====
